---- MODULE Spec2Model ----
(***************************************************************************)
(* A model of the FinanceAssistant agents: the quote/history fetch wrapper *)
(* (api_agent.py and the copy inside analysis_agent.py), the risk exposure *)
(* routine (analysis_agent.py), the scraping wrapper (scraping_agent.py),  *)
(* the in-memory and the indexed retrieval store (retriever_agent.py),     *)
(* program startup and the coordinator's dispatch (orchestrator.py), the   *)
(* speech playback flag (voice_agent.py) and the quote service's           *)
(* get_stock_prices and get_historical_data (api_agent.py).                *)
(*                                                                         *)
(* Numbers.  Prices are drawn from Prices, so every daily return           *)
(* p[t+1]/p[t] - 1 is a multiple of 1/2 and is kept as the integer         *)
(* 2 * return.  Weights are kept in hundredths.  A correlation, a standard *)
(* deviation and a percentage are kept as exact fractions (records with    *)
(* num and den fields), NaN as a record with nan = TRUE.  Floating point   *)
(* rounding is outside the model.                                          *)
(***************************************************************************)
EXTENDS Integers, Sequences, FiniteSets, TLC

VARIABLES
    \* ---- fetch wrapper, called directly (pure function under test)
    fetch_call,        \* the last call: [agent, function, resp]
    fetch_outcome,     \* what that call gave its caller
    \* ---- analyze_risk_exposure
    pc,                \* position inside analyze_risk_exposure
    stock_list_arg,    \* the list passed in (the object the for loop iterates)
    stock_list,        \* the local name stock_list (rebound by the loop)
    allocation_data,   \* the allocation table passed in
    provider,          \* the provider's view of the window: [days, order]
    loop_i,            \* index of the next element of the running for loop
    historical_data,   \* dict symbol -> table (Unset when no entry)
    latest_prices,     \* dict symbol -> price (Unset when no entry)
    stats,             \* data / returns / correlation / risk of lines 101-106
    fetch_log,         \* every provider request of this call, in order, and
                       \* whether the frame it gave was empty
    result,            \* what analyze_risk_exposure returned
    \* ---- scrape_filings
    scrape_pc,         \* position inside scrape_filings
    urls,              \* the list passed in: each URL with what fetching and
                       \* parsing it will meet
    scraped,           \* the list being built by the comprehension
    \* ---- the retrieval store (BaseRetriever)
    texts,             \* self.texts
    embeddings,        \* self.embeddings
    metadata,          \* self.metadata
    last_add,          \* the last add_texts call and how it ended
    \* ---- the indexed retrieval store (FAISSRetriever)
    faiss_texts,       \* self.texts of the FAISSRetriever
    faiss_embeddings,  \* self.embeddings
    faiss_metadata,    \* self.metadata
    faiss_index,       \* self.index: the vectors it holds, in position order
    last_faiss_add,    \* the last FAISSRetriever.add_texts call and how it ended
    last_retrieve,     \* the last retrieve call since then and what it gave
    \* ---- startup
    environ,           \* os.environ and the installed packages
    program,           \* which program was started
    startup_pc,        \* position in the program's startup
    agents,            \* the agent objects constructed so far
    startup_error,     \* the exception that ended startup
    served,            \* requests the quote service has answered
    \* ---- handle_query
    dispatch_pc,       \* position inside handle_query
    query,             \* the query passed in
    dispatch_calls,    \* the method calls made on the fields, in order
    response,          \* the local name response
    dispatch_error,    \* the exception that left handle_query
    \* ---- speak_text
    speaking_event,    \* self.speaking_event: TRUE when set
    n_calls,           \* speak_text calls made so far
    thread_pc,         \* position of each call's playback thread
    tts_result,        \* how the engine call of each thread ended
    thread_exc,        \* the exception that escaped each thread's _speak
    speak_outcome,     \* what each speak_text call gave its caller
    \* ---- get_stock_prices / get_historical_data
    api_pc,            \* position inside the running call
    api_call,          \* the call: method and arguments
    api_i,             \* index of the next element of the loop over symbols
    api_requests,      \* the requests sent to the provider by the call
    results,           \* the dict results of get_stock_prices
    api_outcome        \* what the call gave its caller

fetchVars == <<fetch_call, fetch_outcome>>
analysisVars == <<pc, stock_list_arg, stock_list, allocation_data, provider, loop_i,
                  historical_data, latest_prices, stats, fetch_log, result>>
scrapeVars == <<scrape_pc, urls, scraped>>
storeVars == <<texts, embeddings, metadata, last_add>>
indexVars == <<faiss_texts, faiss_embeddings, faiss_metadata, faiss_index, last_faiss_add,
               last_retrieve>>
baseVars == <<fetchVars, analysisVars, scrapeVars, storeVars>>
startVars == <<environ, program, startup_pc, agents, startup_error, served>>
dispatchVars == <<dispatch_pc, query, dispatch_calls, response, dispatch_error>>
voiceVars == <<speaking_event, n_calls, thread_pc, tts_result, thread_exc, speak_outcome>>
apiVars == <<api_pc, api_call, api_i, api_requests, results, api_outcome>>
restVars == <<indexVars, startVars, dispatchVars, voiceVars, apiVars>>
vars == <<baseVars, restVars>>

\* ------------------------------------------------------------------ bounds
MaxList == 3
MaxDays == 3
MaxUrls == 2
MaxBatch == 2
MaxAdds == 3

Symbols == {"A", "B"}
Prices == {1, 2}

\* ------------------------------------------------------------ small helpers
RECURSIVE SumSeq(_)
SumSeq(s) == IF s = <<>> THEN 0 ELSE Head(s) + SumSeq(Tail(s))

Range(s) == {s[i] : i \in DOMAIN s}

SeqsUpTo(S, n) == UNION {[1..k -> S] : k \in 0..n}

Abs(x) == IF x < 0 THEN -x ELSE x

\* a float that may be NaN, kept as the fraction num/den
NaN == [nan |-> TRUE, num |-> 0, den |-> 1]
Frac(n, d) == [nan |-> FALSE, num |-> n, den |-> d]

\* ------------------------------------------------- the provider's responses
\* A response is the outcome of requests.get + raise_for_status + json():
\* net = FALSE is a RequestException; otherwise keys are the top-level keys of
\* the JSON object in order, series the object under the second key (closes in
\* the provider's row order; NotASeries when that value is no object), fresh
\* whether its days lie in the trailing 30 days, quote the "Global Quote" object.
NotASeries == <<0>>
NoQuote == [present |-> FALSE, ptype |-> "none", price |-> 0]
Quote(t, p) == [present |-> TRUE, ptype |-> t, price |-> p]
QuotePrices == {3}
Quotes == {NoQuote} \cup {Quote(t, p) : t \in {"str", "num"}, p \in QuotePrices}

NetFail == [net |-> FALSE, keys |-> <<>>, series |-> <<>>, fresh |-> TRUE, quote |-> NoQuote]
Json(k, s, f, q) == [net |-> TRUE, keys |-> k, series |-> s, fresh |-> f, quote |-> q]

TimeSeriesFunctions == {"TIME_SERIES_DAILY", "TIME_SERIES_WEEKLY", "TIME_SERIES_MONTHLY"}
Functions == TimeSeriesFunctions \cup {"GLOBAL_QUOTE", "OVERVIEW", "NEWS_SENTIMENT"}

ClosesOf(n) == [1..n -> Prices]

OtherResponses ==
    {NetFail,
     Json(<<>>, <<>>, TRUE, NoQuote),
     Json(<<"Error Message">>, <<>>, TRUE, NoQuote),
     Json(<<"Note">>, <<>>, TRUE, NoQuote),
     Json(<<"Meta Data", "Note">>, NotASeries, TRUE, NoQuote),
     Json(<<"Meta Data", "Time Series">>, <<>>, TRUE, NoQuote),
     Json(<<"Symbol", "Name">>, <<>>, TRUE, NoQuote)}
SeriesResponses(n) ==
    {Json(<<"Meta Data", "Time Series">>, c, f, NoQuote) : c \in ClosesOf(n), f \in BOOLEAN}
QuoteResponses == {Json(<<"Global Quote">>, <<>>, TRUE, q) : q \in Quotes}
Responses == OtherResponses \cup SeriesResponses(1) \cup SeriesResponses(2) \cup QuoteResponses

\* keys whose JSON value is an object (the others hold a string)
ObjectKeys == {"Meta Data", "Time Series", "Global Quote"}

\* ------------------------------------------------------- what a call gives
\* a table (pandas DataFrame; rows empty = DataFrame.empty), or an exception
Table(shape, rows) == [kind |-> "table", shape |-> shape, rows |-> rows, exc |-> "", status |-> 0]
Raise(exc) == [kind |-> "raise", shape |-> "", rows |-> <<>>, exc |-> exc, status |-> 0]
HTTPError(status, detail) ==
    [kind |-> "raise", shape |-> "", rows |-> <<>>, exc |-> detail, status |-> status]

\* pd.DataFrame(data) of the final else branch
RawFrame(resp) ==
    IF resp.keys = <<>> THEN "ok"
    ELSE IF \E i \in DOMAIN resp.keys : resp.keys[i] \in ObjectKeys THEN "ok"
    ELSE "ValueError"

\* the time-series branch, shared text of both copies (lines 25-33 / 68-76):
\* the exception it raises ("" when it returns the frame)
TimeSeriesBranch(resp) ==
    IF Len(resp.keys) < 2 THEN "IndexError"
    ELSE IF resp.series = NotASeries THEN "AttributeError"
    ELSE IF resp.series = <<>> THEN "ValueError"
    ELSE ""

\* AlphaVantageAgent._fetch_data of analysis_agent.py
AnalysisFetchData(function, resp) ==
    IF ~resp.net THEN Raise("RequestException")
    ELSE IF \E i \in DOMAIN resp.keys : resp.keys[i] = "Error Message" THEN Raise("ValueError")
    ELSE IF function \in TimeSeriesFunctions THEN
        IF TimeSeriesBranch(resp) # "" THEN Raise(TimeSeriesBranch(resp))
        ELSE Table("series", resp.series)
    ELSE IF function = "GLOBAL_QUOTE" THEN
        IF ~\E i \in DOMAIN resp.keys : resp.keys[i] = "Global Quote" THEN Raise("KeyError")
        ELSE IF ~resp.quote.present THEN Raise("KeyError")
        ELSE Table("quote", <<resp.quote>>)
    ELSE IF RawFrame(resp) = "ok" THEN Table("raw", resp.keys)
    ELSE Raise(RawFrame(resp))

\* the except clauses of api_agent.py lines 118-129
ApiWrap(exc) ==
    CASE exc = "RequestException" -> HTTPError(500, "Failed to fetch data from Alpha Vantage")
      [] exc = "KeyError" -> HTTPError(500, "Invalid data from Alpha Vantage")
      [] exc = "ValueError:api" -> HTTPError(500, "Alpha Vantage API Error")
      [] exc = "ValueError" -> HTTPError(500, "ValueError")
      [] OTHER -> HTTPError(500, "An unexpected error occurred")

\* pd.to_numeric(..., errors='coerce') on the quote's price
ToNumeric(q) == Quote("num", q.price)

\* the OVERVIEW branch of api_agent.py lines 103-114
OverviewBranch(resp) ==
    IF ~\E i \in DOMAIN resp.keys : resp.keys[i] = "Symbol" THEN Table("overview", <<>>)
    ELSE Table("overview", resp.keys)

\* AlphaVantageAgent._fetch_data of api_agent.py
ApiFetchData(function, resp) ==
    IF ~resp.net THEN ApiWrap("RequestException")
    ELSE IF \E i \in DOMAIN resp.keys : resp.keys[i] = "Error Message" THEN ApiWrap("ValueError:api")
    ELSE IF function \in TimeSeriesFunctions THEN
        IF TimeSeriesBranch(resp) # "" THEN ApiWrap(TimeSeriesBranch(resp))
        ELSE Table("series", resp.series)
    ELSE IF function = "GLOBAL_QUOTE" THEN
        IF ~\E i \in DOMAIN resp.keys : resp.keys[i] = "Global Quote" THEN ApiWrap("KeyError")
        ELSE IF ~resp.quote.present THEN Table("quote", <<>>)
        ELSE Table("quote", <<ToNumeric(resp.quote)>>)
    ELSE IF function = "OVERVIEW" THEN OverviewBranch(resp)
    ELSE IF RawFrame(resp) = "ok" THEN Table("raw", resp.keys)
    ELSE ApiWrap(RawFrame(resp))

Agents == {"api_agent", "analysis_agent"}

FetchData(agent, function, resp) ==
    IF agent = "api_agent" THEN ApiFetchData(function, resp)
    ELSE AnalysisFetchData(function, resp)

NoCall == [agent |-> "", function |-> "", resp |-> NetFail]
NoOutcome == [kind |-> "none", shape |-> "", rows |-> <<>>, exc |-> "", status |-> 0]

FetchInit ==
    /\ fetch_call = NoCall
    /\ fetch_outcome = NoOutcome

\* one direct call of _fetch_data
Fetch ==
    \E agent \in Agents, function \in Functions, resp \in Responses :
        /\ fetch_call' = [agent |-> agent, function |-> function, resp |-> resp]
        /\ fetch_outcome' = FetchData(agent, function, resp)
        /\ UNCHANGED <<analysisVars, scrapeVars, storeVars, restVars>>

\* ------------------------------------------------- the allocation table
\* a pandas DataFrame: row labels, column labels, values[row][column]
Frame(index, columns, values) == [index |-> index, columns |-> columns, values |-> values]

\* the table of the module's own example (lines 156-163): symbols as columns
ColumnsTable ==
    Frame(<<"portfolio_allocation">>, <<"A", "B", "Other">>, <<<<10, 5, 85>>>>)
\* one weight per symbol, symbols as row labels
RowsTable == Frame(<<"A", "B", "Other">>, <<"weight">>, <<<<10>>, <<5>>, <<85>>>>)
\* tables whose row labels and column labels both hold the symbols
SingleTable == Frame(<<"A">>, <<"A">>, <<<<10>>>>)
SquareTable == Frame(<<"A", "B">>, <<"A", "B">>, <<<<10, 20>>, <<30, 40>>>>)
AllocationTables == {ColumnsTable, RowsTable, SingleTable, SquareTable}

\* the weight the table gives a symbol, for a table holding one weight per symbol
OneWeightPerSymbol(df) == Len(df.index) = 1 \/ Len(df.columns) = 1
HasWeight(df, sym) ==
    \/ Len(df.index) = 1 /\ sym \in Range(df.columns)
    \/ Len(df.columns) = 1 /\ sym \in Range(df.index)
WeightOf(df, sym) ==
    IF Len(df.index) = 1 /\ \E j \in DOMAIN df.columns : df.columns[j] = sym
    THEN df.values[1][CHOOSE j \in DOMAIN df.columns : df.columns[j] = sym]
    ELSE IF Len(df.columns) = 1 /\ \E i \in DOMAIN df.index : df.index[i] = sym
    THEN df.values[CHOOSE i \in DOMAIN df.index : df.index[i] = sym][1]
    ELSE 0

Position(labels, x) == CHOOSE i \in DOMAIN labels : labels[i] = x

\* df.loc[labels]: the rows with these labels, in the order asked; KeyError
\* when a label is no row label
LocFails(df, labels) == \E i \in DOMAIN labels : labels[i] \notin Range(df.index)
LocValues(df, labels) == [i \in DOMAIN labels |-> df.values[Position(df.index, labels[i])]]

\* df[labels]: the columns with these labels; KeyError when one is no column
ColsFail(df, labels) == \E i \in DOMAIN labels : labels[i] \notin Range(df.columns)
ColsSum(df, labels, rows) ==
    SumSeq([i \in DOMAIN labels |->
        SumSeq([r \in 1..Len(rows) |-> df.values[rows[r]][Position(df.columns, labels[i])]])])

\* df.sum().sum()
TotalSum(df) == SumSeq([r \in DOMAIN df.index |-> SumSeq(df.values[r])])

AllRows(df) == [r \in DOMAIN df.index |-> r]
\* the rows that survive df.shift(1): every row but the last, moved down
ShiftedRows(df) == [r \in 1..(Len(df.index) - 1) |-> r]

\* --------------------------------------------------------- the statistics
\* keys of a dict built by iterating a list: first occurrences, in order
RECURSIVE DictKeys(_)
DictKeys(l) ==
    IF l = <<>> THEN <<>>
    ELSE LET rest == DictKeys(SubSeq(l, 1, Len(l) - 1))
         IN IF l[Len(l)] \in Range(rest) THEN rest ELSE Append(rest, l[Len(l)])

\* data.pct_change().dropna() of one column: twice the day-over-day return
PctChange(closes) ==
    [t \in 1..(Len(closes) - 1) |-> (2 * (closes[t + 1] - closes[t])) \div closes[t]]

\* n * sum(x*y) - sum(x) * sum(y): n^2 times the covariance of x and y
CoMoment(x, y) ==
    Len(x) * SumSeq([t \in DOMAIN x |-> x[t] * y[t]]) - SumSeq(x) * SumSeq(y)

CorrBySlope(x, y) ==
    IF CoMoment(x, x) * CoMoment(y, y) = 0 THEN NaN
    ELSE Frac(CoMoment(x, y), CoMoment(x, x) * CoMoment(x, x))

\* one entry of returns.corr(): num / sqrt(den) is Pearson's coefficient,
\* NaN when either column has no spread (or fewer than two rows)
Corr(x, y) ==
    IF CoMoment(x, x) * CoMoment(y, y) = 0 THEN NaN
    ELSE Frac(CoMoment(x, y), CoMoment(x, x) * CoMoment(y, y))

\* Series.std(): the sample standard deviation is sqrt(num / den)
Std(x) ==
    IF Len(x) < 2 THEN NaN
    ELSE Frac(CoMoment(x, x), Len(x) * (Len(x) - 1))

\* returns * ndarray (pandas' alignment of a 2-D array with a frame of shape
\* (d, k)): the array of weights used for cell (t, j), or "ValueError"
Broadcast(values, d, k) ==
    LET n == Len(values)
        m == IF n = 0 THEN 0 ELSE Len(values[1])
    IN  IF n = d /\ m = k THEN [t \in 1..d |-> [j \in 1..k |-> values[t][j]]]
        ELSE IF n = d /\ m = 1 THEN [t \in 1..d |-> [j \in 1..k |-> values[t][1]]]
        ELSE IF m = k /\ n = 1 THEN [t \in 1..d |-> [j \in 1..k |-> values[1][j]]]
        ELSE "ValueError"
BroadcastFails(values, d, k) ==
    LET n == Len(values)
        m == IF n = 0 THEN 0 ELSE Len(values[1])
    IN  ~((n = d /\ m = k) \/ (n = d /\ m = 1) \/ (m = k /\ n = 1))

\* ------------------------------------------------ analyze_risk_exposure
Unset == [set |-> FALSE, rows |-> <<>>]
Entry(rows) == [set |-> TRUE, rows |-> rows]
\* latest_prices[symbol]: no entry yet, None, or the quote's price
UnsetPrice == [present |-> FALSE, ptype |-> "unset", price |-> 0]
None == [present |-> FALSE, ptype |-> "none", price |-> 0]

NoStats == [columns |-> <<>>, returns |-> <<>>, correlation_matrix |-> <<>>,
            portfolio_risk |-> NaN, previous_prices |-> <<>>]

NoResult == [kind |-> "none", correlation_matrix |-> <<>>, portfolio_risk |-> NaN,
             largest_change_stock |-> "", largest_change_value |-> NaN,
             allocation_percentage |-> NaN, previous_day_allocation_percentage |-> NaN]
\* {"error": "No data available for any of the provided stocks."}
ErrorRecord == [NoResult EXCEPT !.kind = "error"]
\* {} of the except branch
EmptyRecord == [NoResult EXCEPT !.kind = "empty"]

AnalysisInit ==
    /\ pc = "idle"
    /\ stock_list_arg = <<>>
    /\ stock_list = <<>>
    /\ allocation_data = ColumnsTable
    /\ provider = [days |-> 1, order |-> "asc"]
    /\ loop_i = 1
    /\ historical_data = [s \in Symbols |-> Unset]
    /\ latest_prices = [s \in Symbols |-> UnsetPrice]
    /\ stats = NoStats
    /\ fetch_log = <<>>
    /\ result = NoResult

\* the call: the arguments, and the trading days the provider holds
Call ==
    /\ pc = "idle"
    /\ \E l \in SeqsUpTo(Symbols, MaxList), df \in AllocationTables,
          n \in 1..MaxDays, o \in {"asc", "desc"} :
        /\ stock_list_arg' = l
        /\ stock_list' = l
        /\ allocation_data' = df
        /\ provider' = [days |-> n, order |-> o]
    /\ pc' = "historical"
    /\ loop_i' = 1
    /\ UNCHANGED <<historical_data, latest_prices, stats, fetch_log, result, fetchVars, scrapeVars, storeVars, restVars>>

\* what the provider may answer to a history request, to a quote request
HistoricalResponses(n) == OtherResponses \cup SeriesResponses(n)
LatestResponses == {NetFail, Json(<<"Error Message">>, <<>>, TRUE, NoQuote)} \cup QuoteResponses

\* _get_historical_data: the rows of the frame it returns
GetHistoricalData(resp) ==
    LET df == AnalysisFetchData("TIME_SERIES_DAILY", resp)
    IN  IF df.kind = "raise" THEN <<>>
        ELSE IF resp.fresh THEN df.rows ELSE <<>>

\* _get_latest_quote: the rows of the frame it returns
GetLatestQuote(resp) ==
    LET df == AnalysisFetchData("GLOBAL_QUOTE", resp)
    IN  IF df.kind = "raise" THEN <<>> ELSE df.rows

DropFirstOccurrence(l, symbol) ==
    IF symbol \notin Range(l) THEN l
    ELSE LET i == CHOOSE k \in DOMAIN l : l[k] = symbol /\ \A j \in 1..(k - 1) : l[j] # symbol
         IN SubSeq(l, 1, i - 1) \o SubSeq(l, i + 1, Len(l))

\* line 96: stock_list = [s for s in stock_list if s != symbol]
DropSymbol(l, symbol) == SelectSeq(l, LAMBDA s : s # symbol)

\* one iteration of the loop of lines 92-96 (it iterates the list passed in)
HistoricalStep ==
    /\ pc = "historical"
    /\ loop_i <= Len(stock_list_arg)
    /\ LET symbol == stock_list_arg[loop_i] IN
       \E resp \in HistoricalResponses(provider.days) :
        LET rows == GetHistoricalData(resp) IN
        /\ historical_data' = [historical_data EXCEPT ![symbol] = Entry(rows)]
        /\ stock_list' = IF rows = <<>> THEN DropSymbol(stock_list, symbol) ELSE stock_list
        /\ fetch_log' = Append(fetch_log, [function |-> "TIME_SERIES_DAILY", symbol |-> symbol,
                                            empty |-> rows = <<>>])
    /\ loop_i' = loop_i + 1
    /\ UNCHANGED <<pc, stock_list_arg, allocation_data, provider, latest_prices, stats,
                   result, fetchVars, scrapeVars, storeVars, restVars>>

ReturnNoDataUnchecked ==
    /\ pc = "historical"
    /\ loop_i > Len(stock_list_arg)
    /\ stock_list = <<>>
    /\ result' = EmptyRecord
    /\ pc' = "done"
    /\ UNCHANGED <<stock_list_arg, stock_list, allocation_data, provider, loop_i,
                   historical_data, latest_prices, stats, fetch_log, fetchVars, scrapeVars, storeVars, restVars>>

\* lines 98-99
ReturnNoData ==
    /\ pc = "historical"
    /\ loop_i > Len(stock_list_arg)
    /\ stock_list = <<>>
    /\ result' = ErrorRecord
    /\ pc' = "done"
    /\ UNCHANGED <<stock_list_arg, stock_list, allocation_data, provider, loop_i,
                   historical_data, latest_prices, stats, fetch_log, fetchVars, scrapeVars, storeVars, restVars>>

\* lines 101-106 on the retained symbols
Columns == DictKeys(stock_list)
Returns == [j \in DOMAIN Columns |-> PctChange(historical_data[Columns[j]].rows)]
ReturnRows == provider.days - 1
StatisticsRaises ==
    \* line 105: allocation_data.loc[stock_list] looks the symbols up as rows
    IF LocFails(allocation_data, stock_list) THEN TRUE
    ELSE BroadcastFails(LocValues(allocation_data, stock_list), ReturnRows, Len(Columns))
CorrelationMatrix ==
    [a \in Range(Columns) |-> [b \in Range(Columns) |->
        Corr(Returns[Position(Columns, a)], Returns[Position(Columns, b)])]]
PortfolioReturns ==
    LET w == Broadcast(LocValues(allocation_data, stock_list), ReturnRows, Len(Columns))
    IN  [t \in 1..ReturnRows |-> SumSeq([j \in DOMAIN Columns |-> Returns[j][t] * w[t][j]])]

\* lines 101-106 raise: the except branch returns {}
StatisticsRaise ==
    /\ pc = "historical"
    /\ loop_i > Len(stock_list_arg)
    /\ stock_list # <<>>
    /\ StatisticsRaises
    /\ result' = EmptyRecord
    /\ pc' = "done"
    /\ UNCHANGED <<stock_list_arg, stock_list, allocation_data, provider, loop_i,
                   historical_data, latest_prices, stats, fetch_log, fetchVars, scrapeVars, storeVars, restVars>>

\* lines 101-106
Statistics ==
    /\ pc = "historical"
    /\ loop_i > Len(stock_list_arg)
    /\ stock_list # <<>>
    /\ ~StatisticsRaises
    /\ stats' = [columns |-> Columns,
                 returns |-> Returns,
                 correlation_matrix |-> CorrelationMatrix,
                 portfolio_risk |-> Std(PortfolioReturns),
                 \* data.iloc[-1]: the last row in the provider's order
                 previous_prices |-> [j \in DOMAIN Columns |->
                     historical_data[Columns[j]].rows[provider.days]]]
    /\ pc' = "latest"
    /\ loop_i' = 1
    /\ UNCHANGED <<stock_list_arg, stock_list, allocation_data, provider,
                   historical_data, latest_prices, result, fetch_log, fetchVars, scrapeVars, storeVars, restVars>>

\* one iteration of the loop of lines 109-114
LatestStep ==
    /\ pc = "latest"
    /\ loop_i <= Len(stock_list)
    /\ LET symbol == stock_list[loop_i] IN
       \E resp \in LatestResponses :
        LET rows == GetLatestQuote(resp) IN
        /\ latest_prices' = [latest_prices EXCEPT
                                ![symbol] = IF rows = <<>> THEN None ELSE rows[1]]
        /\ fetch_log' = Append(fetch_log, [function |-> "GLOBAL_QUOTE", symbol |-> symbol,
                                            empty |-> rows = <<>>])
    /\ loop_i' = loop_i + 1
    /\ UNCHANGED <<pc, stock_list_arg, stock_list, allocation_data, provider,
                   historical_data, stats, result, fetchVars, scrapeVars, storeVars, restVars>>

\* lines 116-125: the price change of the symbol at position i of stock_list
PriceChange(i) ==
    latest_prices[stock_list[i]].price
        - stats.previous_prices[Position(stats.columns, stock_list[i])]
HasChange(i) == latest_prices[stock_list[i]].present
\* price_change.abs().idxmax(): the first label holding the largest |change|
IdxMax ==
    CHOOSE i \in DOMAIN stock_list :
        /\ HasChange(i)
        /\ \A j \in DOMAIN stock_list : HasChange(j) => Abs(PriceChange(j)) <= Abs(PriceChange(i))
        /\ \A j \in 1..(i - 1) : HasChange(j) => Abs(PriceChange(j)) < Abs(PriceChange(i))

\* what makes lines 116-132 raise.  series_dtype is the dtype pandas gives
\* pd.Series(index=stock_list): float64 stores None as NaN, which idxmax
\* skips; object keeps None, on which abs() raises TypeError.
FinishRaises(series_dtype) ==
    \* a quoted price left as the JSON string: str - float raises TypeError
    \/ \E i \in DOMAIN stock_list : latest_prices[stock_list[i]].ptype = "str"
    \/ series_dtype = "object" /\ \E i \in DOMAIN stock_list : ~HasChange(i)
    \* no change is defined: idxmax has nothing to return
    \/ \A i \in DOMAIN stock_list : ~HasChange(i)
    \* line 128: allocation_data[stock_list] looks the symbols up as columns
    \/ ColsFail(allocation_data, stock_list)

\* lines 116-132 raise: the except branch returns {}
FinishRaise ==
    /\ pc = "latest"
    /\ loop_i > Len(stock_list)
    /\ \E series_dtype \in {"float64", "object"} : FinishRaises(series_dtype)
    /\ result' = EmptyRecord
    /\ pc' = "done"
    /\ UNCHANGED <<stock_list_arg, stock_list, allocation_data, provider, loop_i,
                   historical_data, latest_prices, stats, fetch_log, fetchVars, scrapeVars, storeVars, restVars>>

\* lines 116-142
Finish ==
    /\ pc = "latest"
    /\ loop_i > Len(stock_list)
    /\ \E series_dtype \in {"float64", "object"} : ~FinishRaises(series_dtype)
    /\ result' =
        [kind |-> "analysis",
         correlation_matrix |-> stats.correlation_matrix,
         portfolio_risk |-> stats.portfolio_risk,
         largest_change_stock |-> stock_list[IdxMax],
         largest_change_value |-> Frac(PriceChange(IdxMax), 1),
         allocation_percentage |->
            Frac(100 * ColsSum(allocation_data, stock_list, AllRows(allocation_data)),
                 TotalSum(allocation_data)),
         previous_day_allocation_percentage |->
            Frac(100 * ColsSum(allocation_data, stock_list, ShiftedRows(allocation_data)),
                 TotalSum(allocation_data))]
    /\ pc' = "done"
    /\ UNCHANGED <<stock_list_arg, stock_list, allocation_data, provider, loop_i,
                   historical_data, latest_prices, stats, fetch_log, fetchVars, scrapeVars, storeVars, restVars>>

AnalysisNext ==
    \/ Call
    \/ HistoricalStep
    \/ ReturnNoData
    \/ StatisticsRaise
    \/ Statistics
    \/ LatestStep
    \/ FinishRaise
    \/ Finish

\* ------------------------------------------------------ scraping_agent.py
\* A URL with what the outside world does to it: its extension (after
\* lower()), whether requests.get succeeds, and what the parsers meet.
\*   html: "ok", "no title" (no <title> tag), "title without string"
\*         (soup.title.string is None, so .strip() raises), "parse error"
\*   pdf:  PyPDF2 gives "text", "blank" (no text layer), "PdfReadError",
\*         "error"; the fallback extractor is "not installed", gives "text"
\*         or "blank", or raises "error"
Extensions == {".html", ".htm", ".pdf", ".txt"}
HtmlCases == {"ok", "no title", "title without string", "parse error"}
PdfCases == {"text", "blank", "PdfReadError", "error"}
FallbackCases == {"not installed", "text", "blank", "error"}
Url(ext, fetch, html, pdf, fallback) ==
    [ext |-> ext, fetch |-> fetch, html |-> html, pdf |-> pdf, fallback |-> fallback]
Urls ==
    {Url(e, "RequestException", "ok", "text", "text") : e \in Extensions}
    \cup {Url(e, "ok", h, "text", "text") : e \in {".html", ".htm"}, h \in HtmlCases}
    \cup {Url(".pdf", "ok", "ok", p, "text") : p \in PdfCases \ {"blank"}}
    \cup {Url(".pdf", "ok", "ok", "blank", f) : f \in FallbackCases}
    \cup {Url(".txt", "ok", "ok", "text", "text")}

\* Optional[...]: None, or a value
NoneValue == [kind |-> "None", title |-> "", content |-> ""]
Bytes == [kind |-> "bytes", title |-> "", content |-> ""]
Soup == [kind |-> "soup", title |-> "", content |-> ""]
Text(t) == [kind |-> "str", title |-> "", content |-> t]
HtmlRecord(title, content) == [kind |-> "html record", title |-> title, content |-> content]
TextRecord(t) == [kind |-> "text record", title |-> "", content |-> t]
Raised(e) == [kind |-> "raise", title |-> "", content |-> e]

FetchDocumentUncaught(url) ==
    IF url.fetch = "ok" THEN Bytes ELSE Raised(url.fetch)

\* _fetch_document
FetchDocument(url) ==
    IF url.fetch = "ok" THEN Bytes ELSE NoneValue

\* _parse_html
ParseHtml(url) ==
    IF url.html = "parse error" THEN NoneValue ELSE Soup

\* _extract_text_from_pdf
ExtractTextFromPdf(url) ==
    CASE url.pdf = "text" -> Text("pdf text")
      [] url.pdf = "PdfReadError" -> NoneValue
      [] url.pdf = "error" -> NoneValue
      [] url.pdf = "blank" ->
            CASE url.fallback = "not installed" -> NoneValue
              [] url.fallback = "error" -> NoneValue
              [] url.fallback = "text" -> Text("fallback text")
              [] url.fallback = "blank" -> Text("")

\* _extract_data_from_html
ExtractDataFromHtml(url) ==
    CASE url.html = "ok" -> HtmlRecord("document title", "paragraphs")
      [] url.html = "no title" -> HtmlRecord("Untitled Document", "paragraphs")
      [] url.html = "title without string" ->
            HtmlRecord("Error", "'NoneType' object has no attribute 'strip'")

\* _extract_data_from_text
ExtractDataFromText(text) == TextRecord(text.content)

\* scrape_filing
ScrapeFiling(url) ==
    LET document_content == FetchDocument(url) IN
    IF document_content.kind = "raise" THEN document_content
    ELSE IF document_content = NoneValue THEN NoneValue
    ELSE IF url.ext \in {".html", ".htm"} THEN
        IF ParseHtml(url) = NoneValue THEN NoneValue ELSE ExtractDataFromHtml(url)
    ELSE IF url.ext = ".pdf" THEN
        IF ExtractTextFromPdf(url) = NoneValue THEN NoneValue
        ELSE ExtractDataFromText(ExtractTextFromPdf(url))
    ELSE NoneValue

ScrapeInit ==
    /\ scrape_pc = "idle"
    /\ urls = <<>>
    /\ scraped = <<>>

\* the call of scrape_filings
ScrapeCall ==
    /\ scrape_pc = "idle"
    /\ urls' \in SeqsUpTo(Urls, MaxUrls)
    /\ scraped' = <<>>
    /\ scrape_pc' = "running"
    /\ UNCHANGED <<fetchVars, analysisVars, storeVars, restVars>>

\* one element of the list comprehension of line 98; an exception leaving
\* scrape_filing would leave the comprehension too
ScrapeStep ==
    /\ scrape_pc = "running"
    /\ Len(scraped) < Len(urls)
    /\ LET r == ScrapeFiling(urls[Len(scraped) + 1]) IN
        IF r.kind = "raise"
        THEN scrape_pc' = "raised" /\ scraped' = scraped
        ELSE scrape_pc' = "running" /\ scraped' = Append(scraped, r)
    /\ UNCHANGED <<urls, fetchVars, analysisVars, storeVars, restVars>>

\* the comprehension is exhausted: the list is returned
ScrapeReturn ==
    /\ scrape_pc = "running"
    /\ Len(scraped) = Len(urls)
    /\ scrape_pc' = "done"
    /\ UNCHANGED <<urls, scraped, fetchVars, analysisVars, storeVars, restVars>>

ScrapeNext == ScrapeCall \/ ScrapeStep \/ ScrapeReturn

\* ---------------------------------------------------- retriever_agent.py
\* An add_texts call: n_texts texts, an array of n_embeddings rows, and
\* metadata None or a list of n_metadata entries.  Stored items are named by
\* the call that brought them and their position in it.
NoAdd == [call |-> 0, n_texts |-> 0, n_embeddings |-> 0, has_metadata |-> FALSE,
          n_metadata |-> 0, accepted |-> FALSE, len_before |-> 0]

StoreInit ==
    /\ texts = <<>>
    /\ embeddings = <<>>
    /\ metadata = <<>>
    /\ last_add = NoAdd

Items(call, what, n) == [k \in 1..n |-> [call |-> call, what |-> what, k |-> k]]

\* the two checks of lines 35-38: "" when the call passes them
AddTextsRejects(n_texts, n_embeddings, has_metadata, n_metadata) ==
    IF n_texts # n_embeddings THEN "ValueError"
    \* `if metadata and ...`: None and the empty list are both falsy
    ELSE IF (has_metadata /\ n_metadata > 0) /\ n_metadata # n_texts THEN "ValueError"
    ELSE ""

\* BaseRetriever.add_texts
AddTexts ==
    /\ last_add.call < MaxAdds
    /\ \E n_texts \in 0..MaxBatch, n_embeddings \in 0..MaxBatch,
          has_metadata \in BOOLEAN, n_metadata \in 0..MaxBatch :
        LET call == last_add.call + 1
            rejected == AddTextsRejects(n_texts, n_embeddings, has_metadata, n_metadata) # ""
        IN  /\ has_metadata \/ n_metadata = 0
            /\ last_add' = [call |-> call, n_texts |-> n_texts, n_embeddings |-> n_embeddings,
                            has_metadata |-> has_metadata, n_metadata |-> n_metadata,
                            accepted |-> ~rejected, len_before |-> Len(texts)]
            /\ IF rejected
               THEN UNCHANGED <<texts, embeddings, metadata>>
               ELSE /\ texts' = texts \o Items(call, "text", n_texts)
                    /\ embeddings' = embeddings \o Items(call, "embedding", n_embeddings)
                    /\ metadata' = metadata \o
                          (IF has_metadata /\ n_metadata > 0
                           THEN Items(call, "metadata", n_metadata)
                           ELSE Items(call, "{}", n_texts))
    /\ UNCHANGED <<fetchVars, analysisVars, scrapeVars, restVars>>

StoreNext == AddTexts

\* --------------------------------------- retriever_agent.py, FAISSRetriever
\* The index is IndexFlatL2(embedding_dim): the vectors added so far, in
\* position order.  A vector is a point Val on a line (every coordinate the
\* same), so the squared L2 distance of two vectors of dimension d is
\* d * (difference of the points)^2.  Rows, texts and metadata entries carry
\* the call that brought them and their position in it.
MaxRows == 1
MaxIndexAdds == 2
embedding_dim == 2
Vals == {0, 1}
Dtypes == {"float32", "float64"}
TopKs == {1, 2}

\* the arguments of one add_texts call: len(texts), the rows of the array
\* (their points), its dtype and second dimension, and the metadata list
AddInput(n_texts, rows, dtype, dim, has_metadata, n_metadata) ==
    [n_texts |-> n_texts, rows |-> rows, dtype |-> dtype, dim |-> dim,
     has_metadata |-> has_metadata, n_metadata |-> n_metadata]
ValidAdds ==
    {AddInput(Len(r), r, "float32", embedding_dim, m, IF m THEN Len(r) ELSE 0) :
        r \in SeqsUpTo(Vals, MaxRows), m \in BOOLEAN}
FaultyAdds ==
    UNION {{AddInput(Len(r), r, "float64", embedding_dim, FALSE, 0),
            AddInput(Len(r) + 1, r, "float32", embedding_dim, FALSE, 0),
            AddInput(Len(r), r, "float32", embedding_dim, TRUE, Len(r) + 1),
            AddInput(Len(r), r, "float32", embedding_dim + 1, FALSE, 0)} :
        r \in SeqsUpTo(Vals, MaxRows)}
AddInputs == ValidAdds \cup FaultyAdds

EmbeddingRows(call, rows) ==
    [k \in DOMAIN rows |-> [call |-> call, what |-> "embedding", k |-> k, val |-> rows[k]]]

NoFaissAdd == [call |-> 0, outcome |-> "none", len_before |-> 0, ntotal_before |-> 0]
NoRetrieve == [retriever |-> "", ntotal |-> 0, kind |-> "none", exc |-> "",
               indices |-> <<>>, results |-> <<>>]

\* FAISSRetriever.__init__
IndexInit ==
    /\ faiss_texts = <<>>
    /\ faiss_embeddings = <<>>
    /\ faiss_metadata = <<>>
    /\ faiss_index = <<>>
    /\ last_faiss_add = NoFaissAdd
    /\ last_retrieve = NoRetrieve

\* index.add(embeddings): the assertion of the binding on the second dimension
IndexAddRaises(a) == IF a.dim # embedding_dim THEN "AssertionError" ELSE ""

\* FAISSRetriever.add_texts: the dtype check, BaseRetriever.add_texts on the
\* lists, then index.add
FaissAddTexts ==
    /\ last_faiss_add.call < MaxIndexAdds
    /\ \E a \in AddInputs :
        LET call == last_faiss_add.call + 1
            early == IF a.dtype # "float32" THEN "ValueError"
                     ELSE AddTextsRejects(a.n_texts, Len(a.rows), a.has_metadata, a.n_metadata)
        IN  IF early # ""
            THEN /\ last_faiss_add' = [call |-> call, outcome |-> early,
                                       len_before |-> Len(faiss_texts),
                                       ntotal_before |-> Len(faiss_index)]
                 /\ UNCHANGED <<faiss_texts, faiss_embeddings, faiss_metadata, faiss_index>>
            ELSE /\ faiss_texts' = faiss_texts \o Items(call, "text", a.n_texts)
                 /\ faiss_embeddings' = faiss_embeddings \o EmbeddingRows(call, a.rows)
                 /\ faiss_metadata' = faiss_metadata \o
                       (IF a.has_metadata /\ a.n_metadata > 0
                        THEN Items(call, "metadata", a.n_metadata)
                        ELSE Items(call, "{}", a.n_texts))
                 /\ faiss_index' = IF IndexAddRaises(a) # "" THEN faiss_index
                             ELSE faiss_index \o EmbeddingRows(call, a.rows)
                 /\ last_faiss_add' = [call |-> call,
                                       outcome |-> IF IndexAddRaises(a) # ""
                                                   THEN IndexAddRaises(a) ELSE "ok",
                                       len_before |-> Len(faiss_texts),
                                       ntotal_before |-> Len(faiss_index)]
    /\ last_retrieve' = NoRetrieve
    /\ UNCHANGED <<baseVars, startVars, dispatchVars, voiceVars, apiVars>>

\* squared L2 distance of the query point to the vector at a position
Distance(query_embedding, p) ==
    embedding_dim * (faiss_index[p].val - query_embedding)
                  * (faiss_index[p].val - query_embedding)
\* how many positions come before p in the result order (nearest first,
\* equal distances by position)
Rank(query_embedding, p) ==
    Cardinality({o \in DOMAIN faiss_index :
        \/ Distance(query_embedding, o) < Distance(query_embedding, p)
        \/ Distance(query_embedding, o) = Distance(query_embedding, p) /\ o < p})
\* index.search(query, top_k): positions counted from 1, 0 for the label -1
Search(query_embedding, top_k) ==
    [r \in 1..top_k |->
        IF r <= Len(faiss_index)
        THEN CHOOSE p \in DOMAIN faiss_index : Rank(query_embedding, p) = r - 1
        ELSE 0]

Retrieved(kind, exc, labels, found) ==
    [retriever |-> "FAISSRetriever", ntotal |-> Len(faiss_index), kind |-> kind, exc |-> exc,
     indices |-> labels, results |-> found]
\* the loop of lines 79-87 over the labels found
Collect(indices) ==
    LET hits == SelectSeq(indices, LAMBDA p : p # 0)
    IN  IF \E r \in DOMAIN hits : hits[r] > Len(faiss_texts)
        THEN Retrieved("raise", "IndexError", indices, <<>>)
        ELSE Retrieved("list", "", indices,
                 [r \in DOMAIN hits |-> [text |-> faiss_texts[hits[r]],
                                         embedding |-> faiss_embeddings[hits[r]],
                                         metadata |-> faiss_metadata[hits[r]]]])

\* FAISSRetriever.retrieve without its first check
RetrieveUnchecked(query_embedding, dtype, top_k) ==
    IF dtype # "float32" THEN Retrieved("raise", "ValueError", <<>>, <<>>)
    ELSE Collect(Search(query_embedding, top_k))

\* FAISSRetriever.retrieve
FaissRetrieve(query_embedding, dtype, top_k) ==
    IF Len(faiss_index) = 0 THEN Retrieved("raise", "ValueError", <<>>, <<>>)
    ELSE IF dtype # "float32" THEN Retrieved("raise", "ValueError", <<>>, <<>>)
    ELSE Collect(Search(query_embedding, top_k))

\* BaseRetriever.retrieve
BaseRetrieve(query_embedding, top_k) ==
    [retriever |-> "BaseRetriever", ntotal |-> 0, kind |-> "raise",
     exc |-> "NotImplementedError", indices |-> <<>>, results |-> <<>>]

Retrieve ==
    /\ \E query_embedding \in Vals, dtype \in Dtypes, top_k \in TopKs :
        last_retrieve' = FaissRetrieve(query_embedding, dtype, top_k)
    /\ UNCHANGED <<faiss_texts, faiss_embeddings, faiss_metadata, faiss_index, last_faiss_add,
                   baseVars, startVars, dispatchVars, voiceVars, apiVars>>

\* retrieve on the plain store of the coordinator
RetrieveOnBase ==
    /\ \E query_embedding \in Vals, top_k \in TopKs :
        last_retrieve' = BaseRetrieve(query_embedding, top_k)
    /\ UNCHANGED <<faiss_texts, faiss_embeddings, faiss_metadata, faiss_index, last_faiss_add,
                   baseVars, startVars, dispatchVars, voiceVars, apiVars>>

IndexNext == FaissAddTexts \/ Retrieve \/ RetrieveOnBase

\* ------------------------------------------- startup (api_agent.py 11-13,
\* 192-193; orchestrator.py 1-23)
\* The environment a program is launched in: each key is unset (os.getenv
\* gives None), set to the empty string, or set; whisper and pyttsx3 are
\* installed or not.  Two programs: the quote service (api_agent.py run as the
\* FastAPI application) and the coordinator (orchestrator.py imported and
\* Orchestrator() constructed).
MaxRequests == 3
KeyValues == {"None", "", "key"}
Environments ==
    [ALPHA_VANTAGE_API_KEY : KeyValues, OPENAI_API_KEY : KeyValues,
     whisper : BOOLEAN, pyttsx3 : BOOLEAN]
Programs == {"quote service", "coordinator"}
NoEnvironment ==
    [ALPHA_VANTAGE_API_KEY |-> "None", OPENAI_API_KEY |-> "None",
     whisper |-> FALSE, pyttsx3 |-> FALSE]

\* `not api_key`: None and the empty string are both falsy
Falsy(value) == value \in {"None", ""}

\* AlphaVantageAgent.__init__ of api_agent.py with the default api_key
ApiAgentInitRaises(env) ==
    IF Falsy(env.ALPHA_VANTAGE_API_KEY) THEN "ValueError" ELSE ""

\* the fields Orchestrator.__init__ assigns, in order, and the exception the
\* constructor call on the right-hand side raises ("" when it returns)
Fields == <<"voice_agent", "api_agent", "retriever_agent", "analysis_agent",
            "scraping_agent", "language_agent">>
ConstructRaises(field, env) ==
    CASE field = "voice_agent" ->
            IF ~env.whisper THEN "ImportError"
            ELSE IF ~env.pyttsx3 THEN "ImportError" ELSE ""
      [] field = "api_agent" -> ApiAgentInitRaises(env)
      [] field = "retriever_agent" -> ""
      [] field = "analysis_agent" -> ""
      [] field = "scraping_agent" -> ""
      \* LanguageAgent.__init__(self, llm) called without its argument
      [] field = "language_agent" -> "TypeError"

StartInit ==
    /\ environ = NoEnvironment
    /\ program = ""
    /\ startup_pc = "off"
    /\ agents = {}
    /\ startup_error = ""
    /\ served = 0

\* the program is started in some environment
Launch ==
    /\ startup_pc = "off"
    /\ \E env \in Environments, prog \in Programs :
        /\ environ' = env
        /\ program' = prog
    /\ startup_pc' = "import"
    /\ UNCHANGED <<agents, startup_error, served, baseVars, indexVars, dispatchVars, voiceVars, apiVars>>

\* api_agent.py at import: its own module for the quote service, line 2 of
\* orchestrator.py for the coordinator; line 193 constructs the module's agent
ImportApiAgent ==
    /\ startup_pc = "import"
    /\ IF ApiAgentInitRaises(environ) # ""
       THEN /\ startup_pc' = "failed"
            /\ startup_error' = ApiAgentInitRaises(environ)
            /\ UNCHANGED agents
       ELSE /\ startup_pc' = IF program = "quote service" THEN "serving" ELSE "init"
            /\ agents' = agents \cup {"api_agent.api_agent"}
            /\ UNCHANGED startup_error
    /\ UNCHANGED <<environ, program, served, baseVars, indexVars, dispatchVars, voiceVars, apiVars>>

\* the next field a running Orchestrator.__init__ assigns
NextField == Fields[Cardinality(agents \ {"api_agent.api_agent"}) + 1]

\* Orchestrator.__init__, one assignment
OrchestratorInit ==
    /\ startup_pc = "init"
    /\ IF ConstructRaises(NextField, environ) # ""
       THEN /\ startup_pc' = "failed"
            /\ startup_error' = ConstructRaises(NextField, environ)
            /\ UNCHANGED agents
       ELSE /\ agents' = agents \cup {NextField}
            /\ startup_pc' = IF NextField = Fields[Len(Fields)] THEN "ready" ELSE "init"
            /\ UNCHANGED startup_error
    /\ UNCHANGED <<environ, program, served, baseVars, indexVars, dispatchVars, voiceVars, apiVars>>

\* the quote service answers one request with its module-level agent
ServeRequest ==
    /\ startup_pc = "serving"
    /\ served < MaxRequests
    /\ served' = served + 1
    /\ UNCHANGED <<environ, program, startup_pc, agents, startup_error, baseVars, indexVars, dispatchVars, voiceVars, apiVars>>

StartNext == Launch \/ ImportApiAgent \/ OrchestratorInit \/ ServeRequest

\* ------------------------------------- orchestrator.py, handle_query
\* handle_query runs on an Orchestrator whose six fields hold objects of the
\* classes lines 18-23 name.  A query is a sequence of words; `phrase in
\* query` is the substring test on it.
MaxWords == 3
Words == {"market", "data", "filings", "hello"}
Queries == SeqsUpTo(Words, MaxWords)

Contains(q, phrase) ==
    \E i \in 0..(Len(q) - Len(phrase)) :
        \A j \in DOMAIN phrase : q[i + j] = phrase[j]

\* the methods each class defines
MethodsOf(field) ==
    CASE field = "voice_agent" ->
            {"transcribe_audio", "speak_text", "listen_microphone", "process_microphone_input"}
      [] field = "api_agent" ->
            {"_fetch_data", "get_stock_prices", "get_historical_data", "get_company_overview"}
      [] field = "retriever_agent" -> {"add_texts", "retrieve", "get_all"}
      [] field = "analysis_agent" ->
            {"_get_historical_data", "_get_latest_quote", "analyze_risk_exposure"}
      [] field = "scraping_agent" -> {"scrape_filing", "scrape_filings"}
      [] field = "language_agent" -> {"generate_market_brief"}

MethodCall(field, method) == [field |-> field, method |-> method]
Apology == "Sorry, I couldn't understand your request."

\* the branch the if/elif/else of lines 26-35 takes
Branch(q) ==
    IF Contains(q, <<"market", "data">>) THEN "market data"
    ELSE IF Contains(q, <<"filings">>) THEN "filings"
    ELSE "apology"

\* the method calls handle_query makes on its fields for a query, in order
Statements(q) ==
    CASE Branch(q) = "market data" ->
            <<MethodCall("api_agent", "get_market_data"),
              MethodCall("analysis_agent", "analyze_market_data"),
              MethodCall("language_agent", "generate_response"),
              MethodCall("voice_agent", "tts")>>
      [] Branch(q) = "filings" ->
            <<MethodCall("retriever_agent", "get_relevant_filings"),
              MethodCall("analysis_agent", "analyze_filings"),
              MethodCall("language_agent", "generate_response"),
              MethodCall("voice_agent", "tts")>>
      [] OTHER -> <<MethodCall("voice_agent", "tts")>>

\* the value bound to response when the branch has run
ResponseOf(q) == IF Branch(q) = "apology" THEN Apology ELSE "generated response"

DispatchInit ==
    /\ dispatch_pc = "idle"
    /\ query = <<>>
    /\ dispatch_calls = <<>>
    /\ response = ""
    /\ dispatch_error = ""

\* handle_query is entered (no call of it is running)
HandleQuery ==
    /\ dispatch_pc # "running"
    /\ \E q \in Queries : query' = q
    /\ dispatch_pc' = "running"
    /\ dispatch_calls' = <<>>
    /\ response' = ""
    /\ dispatch_error' = ""
    /\ UNCHANGED <<baseVars, indexVars, startVars, voiceVars, apiVars>>

\* the next method call of handle_query: the attribute lookup raises
\* AttributeError when the class has no such method; after the last call the
\* response is returned
HandleQueryStep ==
    /\ dispatch_pc = "running"
    /\ LET next == Statements(query)[Len(dispatch_calls) + 1]
       IN  IF next.method \notin MethodsOf(next.field)
           THEN /\ dispatch_pc' = "raised"
                /\ dispatch_error' = "AttributeError"
                /\ response' = IF Branch(query) = "apology" THEN Apology ELSE response
                /\ UNCHANGED dispatch_calls
           ELSE /\ dispatch_calls' = Append(dispatch_calls, next)
                /\ response' = IF Len(dispatch_calls) + 2 >= Len(Statements(query))
                               THEN ResponseOf(query) ELSE response
                /\ dispatch_pc' = IF Len(dispatch_calls) + 1 = Len(Statements(query))
                                  THEN "returned" ELSE "running"
                /\ UNCHANGED dispatch_error
    /\ UNCHANGED <<query, baseVars, indexVars, startVars, voiceVars, apiVars>>

DispatchNext == HandleQuery \/ HandleQueryStep

\* ------------------------------------------- voice_agent.py, speak_text
\* speaking_event is a threading.Event: clear after construction.  Each
\* speak_text call starts one thread running _speak and returns; the thread
\* clears the flag, runs the engine (say + runAndWait, which returns or
\* raises) and sets the flag in its finally clause.  Threads interleave
\* freely; clear() and set() are atomic.
MaxCalls == 3
Threads == 1..MaxCalls

VoiceInit ==
    /\ speaking_event = FALSE
    /\ n_calls = 0
    /\ thread_pc = [t \in Threads |-> "unborn"]
    /\ tts_result = [t \in Threads |-> ""]
    /\ thread_exc = [t \in Threads |-> ""]
    /\ speak_outcome = [t \in Threads |-> ""]

\* speak_text: threading.Thread(target=_speak).start(), then return
SpeakText ==
    /\ n_calls < MaxCalls
    /\ n_calls' = n_calls + 1
    /\ thread_pc' = [thread_pc EXCEPT ![n_calls + 1] = "started"]
    /\ speak_outcome' = [speak_outcome EXCEPT ![n_calls + 1] = "returned"]
    /\ UNCHANGED <<speaking_event, tts_result, thread_exc,
                   baseVars, indexVars, startVars, dispatchVars, apiVars>>

\* _speak line 45: self.speaking_event.clear()
Clear(t) ==
    /\ thread_pc[t] = "started"
    /\ speaking_event' = FALSE
    /\ thread_pc' = [thread_pc EXCEPT ![t] = "speaking"]
    /\ UNCHANGED <<n_calls, tts_result, thread_exc, speak_outcome,
                   baseVars, indexVars, startVars, dispatchVars, apiVars>>

\* _speak lines 47-48 return
TtsReturn(t) ==
    /\ thread_pc[t] = "speaking"
    /\ tts_result' = [tts_result EXCEPT ![t] = "returned"]
    /\ thread_pc' = [thread_pc EXCEPT ![t] = "finally"]
    /\ UNCHANGED <<speaking_event, n_calls, thread_exc, speak_outcome,
                   baseVars, indexVars, startVars, dispatchVars, apiVars>>

\* _speak lines 47-48 raise and nothing catches it: the thread ends there
TtsRaiseUncaught(t) ==
    /\ thread_pc[t] = "speaking"
    /\ tts_result' = [tts_result EXCEPT ![t] = "raised"]
    /\ thread_exc' = [thread_exc EXCEPT ![t] = "Exception"]
    /\ thread_pc' = [thread_pc EXCEPT ![t] = "done"]
    /\ UNCHANGED <<speaking_event, n_calls, speak_outcome,
                   baseVars, indexVars, startVars, dispatchVars, apiVars>>

\* _speak lines 47-50: the engine raises, the except clause logs the error
TtsRaise(t) ==
    /\ thread_pc[t] = "speaking"
    /\ tts_result' = [tts_result EXCEPT ![t] = "raised"]
    /\ thread_pc' = [thread_pc EXCEPT ![t] = "finally"]
    /\ UNCHANGED <<speaking_event, n_calls, thread_exc, speak_outcome,
                   baseVars, indexVars, startVars, dispatchVars, apiVars>>

\* _speak lines 51-52: finally: self.speaking_event.set(); the thread ends
Set(t) ==
    /\ thread_pc[t] = "finally"
    /\ speaking_event' = TRUE
    /\ thread_pc' = [thread_pc EXCEPT ![t] = "done"]
    /\ UNCHANGED <<n_calls, tts_result, thread_exc, speak_outcome,
                   baseVars, indexVars, startVars, dispatchVars, apiVars>>

Speak(t) == Clear(t) \/ TtsReturn(t) \/ TtsRaise(t) \/ Set(t)

VoiceNext == SpeakText \/ \E t \in Threads : Speak(t)

\* ------------------ api_agent.py, get_stock_prices and get_historical_data
\* api_requests is every request sent to the provider by the running call,
\* in order, with the response it met.
MaxSymbols == 2
Intervals == {"1d", "1wk", "1mo", "1h", ""}
QuoteAnswers == OtherResponses \cup QuoteResponses
HistoricalAnswers == OtherResponses \cup SeriesResponses(1) \cup SeriesResponses(2)

Request(function, symbol, resp) == [function |-> function, symbol |-> symbol, resp |-> resp]
NoApiCall == [method |-> "", symbols |-> <<>>, symbol |-> "", interval |-> ""]
\* pd.DataFrame() stored on error
EmptyEntry == Table("", <<>>)

ApiInit ==
    /\ api_pc = "idle"
    /\ api_call = NoApiCall
    /\ api_i = 1
    /\ api_requests = <<>>
    /\ results = [s \in Symbols |-> NoOutcome]
    /\ api_outcome = NoOutcome

\* get_stock_prices is entered: results = {}
GetStockPrices ==
    /\ api_pc # "loop"
    /\ \E symbols \in SeqsUpTo(Symbols, MaxSymbols) :
        api_call' = [method |-> "get_stock_prices", symbols |-> symbols,
                     symbol |-> "", interval |-> ""]
    /\ api_pc' = "loop"
    /\ api_i' = 1
    /\ api_requests' = <<>>
    /\ results' = [s \in Symbols |-> NoOutcome]
    /\ api_outcome' = NoOutcome
    /\ UNCHANGED <<baseVars, indexVars, startVars, dispatchVars, voiceVars>>

\* one pass of the loop where the HTTPException of the fetch is not caught
GetStockPricesStepUncaught ==
    /\ api_pc = "loop"
    /\ api_i <= Len(api_call.symbols)
    /\ \E resp \in QuoteAnswers :
        LET symbol == api_call.symbols[api_i]
            df == ApiFetchData("GLOBAL_QUOTE", resp)
        IN  /\ api_requests' = Append(api_requests, Request("GLOBAL_QUOTE", symbol, resp))
            /\ IF df.kind = "raise"
               THEN /\ api_pc' = "raised"
                    /\ api_outcome' = df
                    /\ UNCHANGED results
               ELSE /\ results' = [results EXCEPT ![symbol] = df]
                    /\ UNCHANGED <<api_pc, api_outcome>>
    /\ api_i' = api_i + 1
    /\ UNCHANGED <<api_call, baseVars, indexVars, startVars, dispatchVars, voiceVars>>

\* one pass of the loop of lines 142-148
GetStockPricesStep ==
    /\ api_pc = "loop"
    /\ api_i <= Len(api_call.symbols)
    /\ \E resp \in QuoteAnswers :
        LET symbol == api_call.symbols[api_i]
            df == ApiFetchData("GLOBAL_QUOTE", resp)
        IN  /\ api_requests' = Append(api_requests, Request("GLOBAL_QUOTE", symbol, resp))
            /\ results' = [results EXCEPT
                              ![symbol] = IF df.kind = "raise" THEN EmptyEntry ELSE df]
    /\ api_i' = api_i + 1
    /\ UNCHANGED <<api_pc, api_call, api_outcome,
                   baseVars, indexVars, startVars, dispatchVars, voiceVars>>

\* return results (line 149)
GetStockPricesReturn ==
    /\ api_pc = "loop"
    /\ api_i > Len(api_call.symbols)
    /\ api_pc' = "returned"
    /\ api_outcome' = Table("dict", <<>>)
    /\ UNCHANGED <<api_call, api_i, api_requests, results,
                   baseVars, indexVars, startVars, dispatchVars, voiceVars>>

\* the series every interval is fetched from (the daily one whatever it is)
DailyFor(interval) == "TIME_SERIES_DAILY"

\* lines 165-170
FunctionFor(interval) ==
    CASE interval = "1d" -> "TIME_SERIES_DAILY"
      [] interval = "1wk" -> "TIME_SERIES_WEEKLY"
      [] interval = "1mo" -> "TIME_SERIES_MONTHLY"

\* get_historical_data, the whole call
GetHistoricalDataCall ==
    /\ api_pc # "loop"
    /\ \E symbol \in Symbols, interval \in Intervals, resp \in HistoricalAnswers :
        /\ api_call' = [method |-> "get_historical_data", symbols |-> <<>>,
                        symbol |-> symbol, interval |-> interval]
        /\ IF interval \notin {"1d", "1wk", "1mo"}
           THEN /\ api_outcome' = HTTPError(400, "Interval not supported")
                /\ api_requests' = <<>>
           ELSE /\ api_requests' = <<Request(FunctionFor(interval), symbol, resp)>>
                \* an HTTPException of the fetch is logged and raised again
                /\ api_outcome' = ApiFetchData(FunctionFor(interval), resp)
        /\ api_pc' = IF api_outcome'.kind = "raise" THEN "raised" ELSE "returned"
    /\ api_i' = 1
    /\ results' = [s \in Symbols |-> NoOutcome]
    /\ UNCHANGED <<baseVars, indexVars, startVars, dispatchVars, voiceVars>>

ApiNext ==
    GetStockPrices \/ GetStockPricesStep \/ GetStockPricesReturn \/ GetHistoricalDataCall

\* ------------------------------------------------------- specifications
Init == FetchInit /\ AnalysisInit /\ ScrapeInit /\ StoreInit /\ IndexInit /\ StartInit /\ DispatchInit /\ VoiceInit /\ ApiInit

SpecFetch == Init /\ [][Fetch]_vars
SpecAnalysis == Init /\ [][AnalysisNext]_vars
SpecScrape == Init /\ [][ScrapeNext]_vars
SpecStore == Init /\ [][StoreNext]_vars
SpecIndex == Init /\ [][IndexNext]_vars
SpecStart == Init /\ [][StartNext]_vars
SpecDispatch == Init /\ [][DispatchNext]_vars
SpecVoice == Init /\ [][VoiceNext]_vars
SpecApi == Init /\ [][ApiNext]_vars
\* every started playback thread keeps running: the scheduler is fair to each
\* thread and the engine call returns or raises
SpecVoiceFair == SpecVoice /\ \A t \in Threads : WF_vars(Speak(t))

\* =========================================================== the claims
\* ---- analyze_risk_exposure
HistoricalLoopDone == pc \in {"latest", "done"} \/ (pc = "historical" /\ loop_i > Len(stock_list_arg))
HistoricalFetches == SelectSeq(fetch_log, LAMBDA e : e.function = "TIME_SERIES_DAILY")
LatestFetches == SelectSeq(fetch_log, LAMBDA e : e.function = "GLOBAL_QUOTE")
AllHistoricalEmpty == \A i \in DOMAIN HistoricalFetches : HistoricalFetches[i].empty
\* the input symbols none of whose historical fetches came back empty
WithData ==
    {s \in Range(stock_list_arg) :
        \A i \in DOMAIN HistoricalFetches :
            HistoricalFetches[i].symbol = s => ~HistoricalFetches[i].empty}

\* C1: when every historical fetch of the call came back empty (the empty
\* list included), the routine returns the error record, and neither the
\* statistics step nor any latest-quote fetch has run.
C1_NoDataReturnsError ==
    (HistoricalLoopDone /\ AllHistoricalEmpty) =>
        /\ pc \in {"historical", "done"}
        /\ pc = "done" => result.kind = "error"
        /\ stats.columns = <<>>
        /\ LatestFetches = <<>>
C1_Witness ==
    /\ pc = "done"
    /\ Len(stock_list_arg) >= 2
    /\ AllHistoricalEmpty
    /\ result.kind = "error"

\* C2 as stated: the retained symbols are the input symbols with a non-empty
\* historical fetch, and every input symbol has exactly one historical fetch.
C2_OneFetchPerSymbol ==
    HistoricalLoopDone =>
        /\ Range(stock_list) =
              {s \in Range(stock_list_arg) :
                  \E i \in DOMAIN HistoricalFetches :
                      HistoricalFetches[i].symbol = s /\ ~HistoricalFetches[i].empty}
        /\ \A s \in Range(stock_list_arg) :
              Cardinality({i \in DOMAIN HistoricalFetches : HistoricalFetches[i].symbol = s}) = 1

\* C2 (amended): every element of the input list gets exactly one historical
\* fetch, in list order; after the loop the retained symbols are exactly the
\* input symbols none of whose fetches came back empty; a latest-quote fetch
\* is issued only for a retained symbol and only after all historical fetches.
C2_RetainedSymbols ==
    /\ \A i \in DOMAIN HistoricalFetches :
          /\ i <= Len(stock_list_arg)
          /\ HistoricalFetches[i].symbol = stock_list_arg[i]
          /\ fetch_log[i] = HistoricalFetches[i]
    /\ HistoricalLoopDone =>
          /\ Len(HistoricalFetches) = Len(stock_list_arg)
          /\ Range(stock_list) = WithData
    /\ LatestFetches # <<>> => HistoricalLoopDone
    /\ \A i \in DOMAIN LatestFetches : LatestFetches[i].symbol \in WithData
C2_Witness ==
    /\ pc = "done"
    /\ Len(stock_list_arg) = 3
    /\ WithData # {}
    /\ WithData # Range(stock_list_arg)
    /\ LatestFetches # <<>>

\* the weighted daily return sum, with each symbol's own weight
WeightedReturnSum ==
    [t \in 1..ReturnRows |->
        SumSeq([j \in DOMAIN Columns |-> Returns[j][t] * WeightOf(allocation_data, Columns[j])])]
SubsetWeightSum ==
    SumSeq([j \in DOMAIN Columns |-> WeightOf(allocation_data, Columns[j])])

\* C3: when a symbol is retained and the table holds one weight per symbol,
\* the routine returns allocation_percentage = 100 * (sum of the retained
\* symbols' weights) / (sum of all weights).
C3_AllocationPercentage ==
    (/\ pc = "done"
     /\ stock_list # <<>>
     /\ OneWeightPerSymbol(allocation_data)
     /\ \A s \in Range(stock_list) : HasWeight(allocation_data, s)) =>
        /\ result.kind = "analysis"
        /\ result.allocation_percentage = Frac(100 * SubsetWeightSum, TotalSum(allocation_data))

\* C4: with the symbols as the columns of the weight table, the routine
\* returns a result (not the empty record) whose portfolio_risk is the
\* standard deviation over days of the weighted daily return sum.
C4_PortfolioRisk ==
    (pc = "done" /\ stock_list # <<>> /\ allocation_data = ColumnsTable) =>
        /\ result.kind = "analysis"
        /\ result.portfolio_risk = Std(WeightedReturnSum)

IsOne(c) == ~c.nan /\ c.num > 0 /\ c.num * c.num = c.den
Symmetric(m) == \A a \in DOMAIN m : \A b \in DOMAIN m : m[a][b] = m[b][a]
HasSpread(x) == CoMoment(x, x) # 0

\* C5 as stated: the returned correlation matrix is symmetric and every
\* diagonal entry is 1.
C5_UnitDiagonal ==
    result.kind = "analysis" =>
        /\ Symmetric(result.correlation_matrix)
        /\ \A a \in DOMAIN result.correlation_matrix : IsOne(result.correlation_matrix[a][a])

\* C5 (amended): the returned correlation matrix is symmetric; the diagonal
\* entry of a symbol is 1 when its return series has at least two rows that
\* are not all equal, and NaN otherwise.
C5_SymmetricDiagonal ==
    result.kind = "analysis" =>
        /\ DOMAIN result.correlation_matrix = Range(stock_list)
        /\ Symmetric(result.correlation_matrix)
        /\ \A a \in DOMAIN result.correlation_matrix :
              IF HasSpread(PctChange(historical_data[a].rows))
              THEN IsOne(result.correlation_matrix[a][a])
              ELSE result.correlation_matrix[a][a].nan
C5_Witness ==
    /\ result.kind = "analysis"
    /\ DOMAIN result.correlation_matrix = {"A", "B"}
    /\ IsOne(result.correlation_matrix["A"]["A"])
    /\ IsOne(result.correlation_matrix["B"]["B"])
    /\ ~result.correlation_matrix["A"]["B"].nan
    /\ result.correlation_matrix["A"]["B"].num # 0

\* the close of the most recent trading day of a symbol's history
MostRecentClose(s) ==
    IF provider.order = "asc" THEN historical_data[s].rows[Len(historical_data[s].rows)]
    ELSE historical_data[s].rows[1]
TrueChange(s) == latest_prices[s].price - MostRecentClose(s)

\* C6: when the statistics and the allocation lookups go through and some
\* retained symbol has a latest quote, the routine returns the quoted symbol
\* whose |latest price - most recent close| is largest, with its signed
\* difference.
C6_LargestChange ==
    (/\ pc = "done"
     /\ stats.columns # <<>>
     /\ ~ColsFail(allocation_data, stock_list)
     /\ \E s \in Range(stock_list) : latest_prices[s].present) =>
        /\ result.kind = "analysis"
        /\ result.largest_change_stock \in Range(stock_list)
        /\ latest_prices[result.largest_change_stock].present
        /\ \A s \in Range(stock_list) :
              latest_prices[s].present =>
                  Abs(TrueChange(s)) <= Abs(TrueChange(result.largest_change_stock))
        /\ result.largest_change_value = Frac(TrueChange(result.largest_change_stock), 1)

\* ---- the fetch wrapper
HasKey(resp, k) == \E i \in DOMAIN resp.keys : resp.keys[i] = k
\* which of the three failures a request meets ("" when none)
Condition(function, resp) ==
    IF ~resp.net THEN "network error"
    ELSE IF HasKey(resp, "Error Message") THEN "provider error"
    ELSE IF function \in TimeSeriesFunctions /\ ~HasKey(resp, "Time Series") THEN "missing key"
    ELSE IF function = "GLOBAL_QUOTE" /\ ~HasKey(resp, "Global Quote") THEN "missing key"
    ELSE IF function = "OVERVIEW" /\ ~HasKey(resp, "Symbol") THEN "missing key"
    ELSE ""
\* what a caller can tell outcomes apart by
Signal(outcome) == <<outcome.kind, outcome.exc, outcome.status>>

\* C7: a network error, a response missing the expected key and a provider
\* error payload each reach the caller as an error, never as a table, and a
\* caller can tell the three apart.
C7_FailuresSurface ==
    (fetch_call.function # "" /\ Condition(fetch_call.function, fetch_call.resp) # "") =>
        /\ fetch_outcome.kind = "raise"
        /\ \A f \in Functions, r \in Responses :
              (Condition(f, r) # "" /\ Condition(f, r) # Condition(fetch_call.function, fetch_call.resp))
                  => Signal(FetchData(fetch_call.agent, f, r)) # Signal(fetch_outcome)

\* ---- the scraping wrapper
\* what goes wrong on the way for a URL ("" when nothing does)
Failure(url) ==
    IF url.fetch # "ok" THEN "fetch"
    ELSE IF url.ext \in {".html", ".htm"} THEN
        (IF url.html = "parse error" THEN "html parse"
         ELSE IF url.html = "title without string" THEN "html extraction"
         ELSE "")
    ELSE IF url.ext = ".pdf" THEN
        (IF url.pdf \in {"PdfReadError", "error"} THEN "pdf extraction"
         ELSE IF url.pdf = "blank" /\ url.fallback \in {"not installed", "error"} THEN "fallback"
         ELSE "")
    ELSE "unsupported extension"

C9_BatchIsElementwise ==
    /\ scrape_pc \in {"idle", "running", "done"}
    /\ Len(scraped) <= Len(urls)
    /\ \A i \in DOMAIN scraped : scraped[i] = ScrapeFiling(urls[i])
    /\ scrape_pc = "done" => Len(scraped) = Len(urls)
C9_Witness ==
    /\ scrape_pc = "done"
    /\ Len(urls) = 2
    /\ Failure(urls[1]) # ""
    /\ scraped[1] = NoneValue
    /\ scraped[2] # NoneValue

\* ---- the retrieval store
Mismatch(a) ==
    \/ a.n_texts # a.n_embeddings
    \/ a.has_metadata /\ a.n_metadata # a.n_texts

\* C10: a call whose counts do not all match is rejected and leaves the
\* store unchanged; the three lists always have equal length.
C10_MismatchRejected ==
    /\ (last_add.call > 0 /\ Mismatch(last_add)) =>
          /\ ~last_add.accepted
          /\ Len(texts) = last_add.len_before
    /\ Len(texts) = Len(embeddings)
    /\ Len(texts) = Len(metadata)

\* ---- the indexed retrieval store
AllAddsRejected == Len(faiss_index) = 0
EmptyList(r) == r.kind = "list" /\ r.results = <<>>

\* C11: retrieve on an index holding no entries signals an error and never
\* gives an empty list: the call just made on an empty index raised, and so
\* would every other query, on the indexed store and on the plain store,
\* in the initial state and after add_texts calls that put nothing in the index.
C11_EmptyIndexIsAnError ==
    /\ (last_retrieve.kind # "none" /\ last_retrieve.ntotal = 0) =>
          /\ last_retrieve.kind = "raise"
          /\ last_retrieve.exc \in {"ValueError", "NotImplementedError"}
    /\ AllAddsRejected =>
          \A query_embedding \in Vals, dtype \in Dtypes, top_k \in TopKs :
              /\ FaissRetrieve(query_embedding, dtype, top_k).kind = "raise"
              /\ ~EmptyList(FaissRetrieve(query_embedding, dtype, top_k))
              /\ BaseRetrieve(query_embedding, top_k).kind = "raise"

\* retrieve of a well-formed query raised on the indexed store after a
\* rejected add_texts
C11_Witness ==
    /\ last_faiss_add.call >= 1
    /\ last_faiss_add.outcome # "ok"
    /\ last_retrieve.retriever = "FAISSRetriever"
    /\ last_retrieve.ntotal = 0
    /\ last_retrieve.kind = "raise"
    /\ last_retrieve.exc = "ValueError"

\* the labels retrieve found, without the padding label
Hits == SelectSeq(last_retrieve.indices, LAMBDA p : p # 0)

\* C18: the index holds one vector per stored text, the vector at position i
\* is the embedding of stored triple i, retrieve gives for each label found
\* the text brought by the same call and row as the matching vector and never
\* reads past the end of the lists, and an add_texts call that failed left
\* the lists and the index as they were.
C18_IndexMatchesLists ==
    /\ Len(faiss_index) = Len(faiss_texts)
    /\ \A i \in DOMAIN faiss_index :
          i \in DOMAIN faiss_embeddings /\ faiss_index[i] = faiss_embeddings[i]
    /\ last_retrieve.kind = "raise" => last_retrieve.exc # "IndexError"
    /\ last_retrieve.kind = "list" =>
          \A r \in DOMAIN last_retrieve.results :
              /\ last_retrieve.results[r].text.call = faiss_index[Hits[r]].call
              /\ last_retrieve.results[r].text.k = faiss_index[Hits[r]].k
    /\ (last_faiss_add.call > 0 /\ last_faiss_add.outcome # "ok") =>
          /\ Len(faiss_texts) = last_faiss_add.len_before
          /\ Len(faiss_index) = last_faiss_add.ntotal_before

\* ---- startup
Absent(value) == value = "None"
Started == startup_pc # "off"

\* C12: when either API key is absent from the environment, startup fails
\* fatally: no agent is constructed, the coordinator is never ready and no
\* request is served.
C12_MissingKeyIsFatal ==
    (Started /\ (Absent(environ.ALPHA_VANTAGE_API_KEY) \/ Absent(environ.OPENAI_API_KEY))) =>
        /\ agents = {}
        /\ served = 0
        /\ startup_pc \in {"import", "failed"}

\* ---- handle_query
Finished == dispatch_pc \in {"raised", "returned"}
SpokenCalls == SelectSeq(dispatch_calls, LAMBDA c : c.field = "voice_agent")

\* C13: for every query handle_query runs the one branch the keywords
\* choose, makes that branch's wrapper calls in order, speaks the response
\* through the voice wrapper exactly once and returns the same response.
C13_DispatchSpeaksAndReturns ==
    Finished =>
        /\ dispatch_pc = "returned"
        /\ dispatch_calls = Statements(query)
        /\ Len(SpokenCalls) = 1
        /\ response = ResponseOf(query)

\* ---- speak_text
\* a playback thread is between its start and its completion
InProgress(t) == thread_pc[t] \in {"started", "speaking", "finally"}
PlaybackInProgress == \E t \in Threads : InProgress(t)

\* C14: the flag is set exactly when no playback thread is between its
\* start and its completion, in every state and under every interleaving.
C14_FlagTracksPlayback == speaking_event <=> ~PlaybackInProgress

\* C15: after at least one speak_text call, with every playback thread
\* running on and its engine call returning or raising, the flag gets set,
\* and from some point on (all playbacks of the calls made are over and no
\* further call comes) it stays set; a thread whose engine call raised still
\* sets the flag, no exception leaves the thread and every speak_text call
\* returns to its caller.
C15_FlagEventuallySet ==
    /\ [](n_calls > 0 => <>speaking_event)
    /\ <>[](n_calls > 0 => speaking_event)
    /\ \A t \in Threads : [](tts_result[t] = "raised" => <>(thread_pc[t] = "done" /\ speaking_event))
    /\ [](\A t \in Threads : thread_exc[t] = "" /\ speak_outcome[t] \in {"", "returned"})

\* an engine call raised, its thread is over and the flag is set
C15_Witness ==
    \E t \in Threads :
        /\ tts_result[t] = "raised"
        /\ thread_pc[t] = "done"
        /\ speaking_event
        /\ ~PlaybackInProgress

\* ---- get_stock_prices
StockCall == api_call.method = "get_stock_prices"
\* the last request of the call made for a symbol
LastFetch(s) ==
    CHOOSE i \in DOMAIN api_requests :
        /\ api_requests[i].symbol = s
        /\ \A j \in DOMAIN api_requests : api_requests[j].symbol = s => j <= i
FetchFailed(req) == Condition(req.function, req.resp) # ""

\* C16: get_stock_prices never raises; it sends one latest-quote request per
\* list element, in list order; when it returns every requested symbol has
\* an entry, which is empty when the symbol's fetch failed and otherwise the
\* table of that symbol's own fetch, whatever the other fetches met; symbols
\* not requested have no entry.
C16_EntryForEverySymbol ==
    StockCall =>
        /\ api_pc # "raised"
        /\ Len(api_requests) = api_i - 1
        /\ Len(api_requests) <= Len(api_call.symbols)
        /\ \A i \in DOMAIN api_requests :
              /\ api_requests[i].function = "GLOBAL_QUOTE"
              /\ api_requests[i].symbol = api_call.symbols[i]
        /\ api_pc = "returned" =>
              /\ Len(api_requests) = Len(api_call.symbols)
              /\ \A s \in Symbols :
                    IF s \in Range(api_call.symbols)
                    THEN /\ results[s].kind = "table"
                         /\ FetchFailed(api_requests[LastFetch(s)]) => results[s].rows = <<>>
                         /\ ~FetchFailed(api_requests[LastFetch(s)]) =>
                               results[s] = ApiFetchData("GLOBAL_QUOTE",
                                                         api_requests[LastFetch(s)].resp)
                    ELSE results[s].kind = "none"

\* two symbols requested, the first fetch failed, the second gave a quote
C16_Witness ==
    /\ StockCall
    /\ api_pc = "returned"
    /\ Len(api_call.symbols) = 2
    /\ api_call.symbols[1] # api_call.symbols[2]
    /\ FetchFailed(api_requests[1])
    /\ results[api_call.symbols[1]].rows = <<>>
    /\ results[api_call.symbols[2]].rows # <<>>

\* ---- get_historical_data
HistoricalCall == api_call.method = "get_historical_data"
Supported == {"1d", "1wk", "1mo"}
SeriesOf(interval) ==
    IF interval = "1d" THEN "TIME_SERIES_DAILY"
    ELSE IF interval = "1wk" THEN "TIME_SERIES_WEEKLY"
    ELSE "TIME_SERIES_MONTHLY"

\* C17: an interval other than 1d, 1wk, 1mo is refused with status 400 and
\* no request is sent; for the three intervals one request is sent, for the
\* daily, weekly and monthly series of the symbol, and a failed fetch
\* reaches the caller as an error with status 500, never as an empty table.
C17_IntervalsAndFailures ==
    HistoricalCall =>
        /\ api_call.interval \notin Supported =>
              /\ api_outcome.kind = "raise"
              /\ api_outcome.status = 400
              /\ api_requests = <<>>
        /\ api_call.interval \in Supported =>
              /\ Len(api_requests) = 1
              /\ api_requests[1].function = SeriesOf(api_call.interval)
              /\ api_requests[1].symbol = api_call.symbol
              /\ FetchFailed(api_requests[1]) =>
                    /\ api_outcome.kind = "raise"
                    /\ api_outcome.status = 500
              /\ api_outcome.kind = "table" => api_outcome.rows # <<>>

\* a weekly request met a failure and the caller got status 500
C17_Witness ==
    /\ HistoricalCall
    /\ api_call.interval = "1wk"
    /\ Len(api_requests) = 1
    /\ FetchFailed(api_requests[1])
    /\ api_outcome.kind = "raise"
    /\ api_outcome.status = 500

====
